---- MODULE Spec2Model ----
(***************************************************************************)
(* Model of the DS1307 real time clock protocol decoder (src/pd.py).       *)
(*                                                                         *)
(* The decoder is a libsigrokdecode stacked decoder: the upstream I2C      *)
(* decoder calls Decoder.decode(startsample, endsample, [cmd, databyte])   *)
(* once per bus event.  One action of this model is one such call, from    *)
(* its first statement to its return or to the exception it raises.        *)
(*                                                                         *)
(* Python values are modelled by the TLA+ values of the same kind: str by  *)
(* strings, int by integers, list/tuple by sequences (index i in Python is *)
(* index i+1 here).  An exception leaving decode() is recorded in `fault`; *)
(* the assignments made before the raise are kept, as in Python, and the   *)
(* host stops feeding the decoder.                                         *)
(***************************************************************************)
EXTENDS Integers, Sequences, FiniteSets, TLC

(***************************************************************************)
(* Bounds of the model.                                                    *)
(***************************************************************************)
\* Number of bus events (decode calls other than BITS packets) fed.
MaxEvents == 6

(***************************************************************************)
(* Enumerations for device parameters (src/pd.py 28-67).                   *)
(***************************************************************************)
Address_SLAVE == 104

NvRAM_MIN == 8

NvRAM_MAX == 63

ControlBits_RS0 == 0

ControlBits_RS1 == 1

ControlBits_SQWE == 4

ControlBits_OUT == 7

TimeBits_AMPM == 5

TimeBits_MODE == 6

TimeBits_CH == 7

(***************************************************************************)
(* Enumerations for annotations (src/pd.py 73-107).                        *)
(***************************************************************************)
AnnAddrs_SLAVE == 0

AnnRegs_SECOND == AnnAddrs_SLAVE + 1

AnnRegs_MINUTE == AnnRegs_SECOND + 1

AnnRegs_HOUR == AnnRegs_SECOND + 2

AnnRegs_WEEKDAY == AnnRegs_SECOND + 3

AnnRegs_DAY == AnnRegs_SECOND + 4

AnnRegs_MONTH == AnnRegs_SECOND + 5

AnnRegs_YEAR == AnnRegs_SECOND + 6

AnnRegs_CONTROL == AnnRegs_SECOND + 7

AnnRegs_NVRAM == AnnRegs_SECOND + 8

AnnBits_RESERVED == AnnRegs_NVRAM + 1

AnnBits_DATA == AnnBits_RESERVED + 1

AnnBits_RS0 == AnnBits_RESERVED + 2

AnnBits_RS1 == AnnBits_RESERVED + 3

AnnBits_SQWE == AnnBits_RESERVED + 4

AnnBits_OUT == AnnBits_RESERVED + 5

AnnBits_AMPM == AnnBits_RESERVED + 6

AnnBits_MODE == AnnBits_RESERVED + 7

AnnBits_CH == AnnBits_RESERVED + 8

AnnBits_SECOND == AnnBits_RESERVED + 9

AnnBits_MINUTE == AnnBits_RESERVED + 10

AnnBits_HOUR == AnnBits_RESERVED + 11

AnnBits_WEEKDAY == AnnBits_RESERVED + 12

AnnBits_DAY == AnnBits_RESERVED + 13

AnnBits_MONTH == AnnBits_RESERVED + 14

AnnBits_YEAR == AnnBits_RESERVED + 15

AnnBits_NVRAM == AnnBits_RESERVED + 16

AnnInfo_WARN == AnnBits_NVRAM + 1

AnnInfo_BADADD == AnnInfo_WARN + 1

AnnInfo_CHECK == AnnInfo_WARN + 2

AnnInfo_WRITE == AnnInfo_WARN + 3

AnnInfo_READ == AnnInfo_WARN + 4

AnnInfo_DATETIME == AnnInfo_WARN + 5

AnnInfo_NVRAM == AnnInfo_WARN + 6

(***************************************************************************)
(* Parameter mappings (src/pd.py 113-140).                                 *)
(***************************************************************************)
\* The option values of "radix"; the format masks are applied in format_data.
radixes == {"Hex", "Dec", "Oct"}

weekdays ==
    <<"Monday", "Tuesday", "Wednesday", "Thursday", "Friday",
      "Saturday", "Sunday">>

months ==
    <<"Unknown",
      "January", "February", "March", "April", "May", "June",
      "July", "August", "September", "October", "November", "December">>

rates == [c \in 0..3 |-> CASE c = 0 -> 1 [] c = 1 -> 4096
                           [] c = 2 -> 8192 [] c = 3 -> 32768]

params == [UNIT_HZ |-> "Hz", UNIT_KHZ |-> "kHz"]

date_formats == {"European", "American", "ANSI"}

(***************************************************************************)
(* Annotation label lists (src/pd.py 152-197).  Python dicts keyed by the  *)
(* annotation index; bits has no entry for AnnBits.RS1.                    *)
(***************************************************************************)
addresses == (AnnAddrs_SLAVE :> <<"Device address", "Address", "Add", "A">>)

registers ==
    (AnnRegs_SECOND :> <<"Seconds register", "Seconds", "Secs", "S">>) @@
    (AnnRegs_MINUTE :> <<"Minutes register", "Minutes", "Mins", "M">>) @@
    (AnnRegs_HOUR :> <<"Hours register", "Hours", "Hrs", "H">>) @@
    (AnnRegs_WEEKDAY :> <<"Weekdays register", "Weekdays", "W">>) @@
    (AnnRegs_DAY :> <<"Days register", "Days", "D">>) @@
    (AnnRegs_MONTH :> <<"Months register", "Months", "Mons", "M">>) @@
    (AnnRegs_YEAR :> <<"Years register", "Years", "Yrs", "Y">>) @@
    (AnnRegs_CONTROL :> <<"Control register", "Control", "Ctrl", "C">>) @@
    (AnnRegs_NVRAM :> <<"Non-volatile memory register", "NV-RAM", "NVR", "R">>)

bits_labels ==
    (AnnBits_RESERVED :> <<"Reserved bit", "Reserved", "Rsvd", "R">>) @@
    (AnnBits_DATA :> <<"Data bit", "Data", "D">>) @@
    (AnnBits_RS0 :> <<"Rate select bits", "Rate select", "Rate", "RS">>) @@
    (AnnBits_SQWE :> <<"SQW enable bit", "SQW enable", "SQWE", "SE", "S">>) @@
    (AnnBits_OUT :> <<"OUT bit", "OUT", "O">>) @@
    (AnnBits_AMPM :> <<"AM/PM bit", "AM/PM", "A/P", "A">>) @@
    (AnnBits_MODE :> <<"12/24 hours mode bit", "12/24 mode", "Mode", "M">>) @@
    (AnnBits_CH :> <<"Clock halt bit", "Clock halt", "CH", "H">>) @@
    (AnnBits_SECOND :> <<"Second bits", "Second", "Sec", "S">>) @@
    (AnnBits_MINUTE :> <<"Minute bits", "Minute", "Min", "M">>) @@
    (AnnBits_HOUR :> <<"Hour bits", "Hour", "Hr", "H">>) @@
    (AnnBits_WEEKDAY :> <<"Weekday bits", "Weekday", "WD", "W">>) @@
    (AnnBits_DAY :> <<"Day bits", "Day", "D">>) @@
    (AnnBits_MONTH :> <<"Month bits", "Month", "Mon", "M">>) @@
    (AnnBits_YEAR :> <<"Year bits", "Year", "Yr", "Y">>) @@
    (AnnBits_NVRAM :> <<"NVRAM", "RAM", "R">>)

info ==
    (AnnInfo_WARN :> <<"Warnings", "Warn", "W">>) @@
    (AnnInfo_BADADD :> <<"Uknown slave address", "Unknown address", "Uknown",
                         "Unk", "U">>) @@
    (AnnInfo_CHECK :> <<"Slave presence check", "Slave check", "Check",
                        "Chk", "C">>) @@
    (AnnInfo_WRITE :> <<"Write", "Wr", "W">>) @@
    (AnnInfo_READ :> <<"Read", "Rd", "R">>) @@
    (AnnInfo_DATETIME :> <<"Datetime", "Date", "D">>) @@
    (AnnInfo_NVRAM :> <<"Memory", "Mem", "M">>)

(***************************************************************************)
(* Python primitives used by the decoder.                                  *)
(***************************************************************************)
\* isinstance(v, str): a string prints with its quotes, a number does not.
IsStr(v) == SubSeq(ToString(v), 1, 1) = "\""

\* "{}".format(v) for a str or an int.
PyStr(v) == IF IsStr(v) THEN v ELSE ToString(v)

\* "{:0<w>d}".format(n): sign-aware zero padding to width w.
RECURSIVE ZeroFill(_, _)
ZeroFill(s, w) == IF Len(s) >= w THEN s ELSE ZeroFill("0" \o s, w)

PadInt(n, w) ==
    IF n < 0 THEN "-" \o ZeroFill(ToString(0 - n), w - 1)
    ELSE ZeroFill(ToString(n), w)

\* Digits of n >= 0 in base b (2..16), lower case, as format(n, "x"/"o").
RECURSIVE ToBase(_, _)
ToBase(n, b) ==
    LET d == SubSeq("0123456789abcdef", (n % b) + 1, (n % b) + 1)
    IN IF n < b THEN d ELSE ToBase(n \div b, b) \o d

\* str.strip() for the blank character.
RECURSIVE Strip(_)
Strip(s) ==
    IF Len(s) = 0 THEN s
    ELSE IF SubSeq(s, 1, 1) = " " THEN Strip(SubSeq(s, 2, Len(s)))
    ELSE IF SubSeq(s, Len(s), Len(s)) = " " THEN Strip(SubSeq(s, 1, Len(s) - 1))
    ELSE s

\* Concatenation of a sequence of sequences.
RECURSIVE Flatten(_)
Flatten(ss) == IF ss = <<>> THEN <<>> ELSE Head(ss) \o Flatten(Tail(ss))

\* "".join(ss) for a sequence of strings.
RECURSIVE JoinStr(_)
JoinStr(ss) == IF Len(ss) = 0 THEN "" ELSE Head(ss) \o JoinStr(Tail(ss))

\* list.sort(key=len, reverse=True): stable, longest first.
RECURSIVE SortByLen(_)
SortByLen(s) ==
    IF Len(s) <= 1 THEN s
    ELSE LET t == SortByLen(SubSeq(s, 1, Len(s) - 1))
             x == s[Len(s)]
             k == Cardinality({i \in 1..Len(t) : Len(t[i]) >= Len(x)})
         IN SubSeq(t, 1, k) \o <<x>> \o SubSeq(t, k + 1, Len(t))

\* Bit k of byte b: 1 if (b & (1 << k)) else 0.
Bit(b, k) == (b \div (2 ^ k)) % 2

\* b & mask for a mask 2^n - 1 (0x7f, 0x3f, 0x1f, 0x07, 0x03, 0xff).
LowBits(b, n) == b % (2 ^ n)

\* common.srdhelper.bcd2int: no validation of the nibbles.
bcd2int(b) == (b % 16) + ((b \div 16) * 10)

(***************************************************************************)
(* compose_annot (src/pd.py 285-367).  Every argument is passed as the     *)
(* list the method first turns it into: a scalar x as <<x>>, None as <<>>. *)
(***************************************************************************)
\* The list built by the loops, before the sort (lines 344-365).
compose_list(ann_label, ann_value, ann_unit, ann_action) ==
    LET acts == IF Len(ann_action) = 0 THEN <<"">> ELSE ann_action
        WithUnits(item, k) ==
            item \o JoinStr([j \in 1..k |-> PyStr(ann_unit[j])])
        ForVal(ann, val) ==
            LET item == ann \o ": " \o PyStr(val)
            IN <<item>> \o [k \in 1..Len(ann_unit) |-> WithUnits(item, k)]
        ForLbl(act, lbl) ==
            LET ann == Strip(PyStr(act) \o " " \o PyStr(lbl))
            IN IF Len(ann_value) = 0 THEN <<ann>>
               ELSE Flatten([v \in 1..Len(ann_value) |-> ForVal(ann, ann_value[v])])
        ForAct(act) == Flatten([l \in 1..Len(ann_label) |-> ForLbl(act, ann_label[l])])
        body == Flatten([a \in 1..Len(acts) |-> ForAct(acts[a])])
        first == IF Len(ann_label) > 2 THEN Len(ann_label) - 1 ELSE 1
        last2 == IF Len(ann_value) > 0
                 THEN SubSeq(ann_label, first, Len(ann_label))
                 ELSE <<>>
    IN body \o last2

\* annots.sort(key=len, ...) raises TypeError when an item has no len().
compose_raises(ann_label, ann_value, ann_unit, ann_action) ==
    LET l == compose_list(ann_label, ann_value, ann_unit, ann_action)
    IN \E i \in 1..Len(l) : ~IsStr(l[i])

compose_annot(ann_label, ann_value, ann_unit, ann_action) ==
    SortByLen(compose_list(ann_label, ann_value, ann_unit, ann_action))

\* The record handed to the annotation sink: put(ss, es, out_ann, [cls, annots]).
put(s, e, cls, annots) == [ss |-> s, es |-> e, cls |-> cls, texts |-> annots]

(***************************************************************************)
(* State.                                                                  *)
(***************************************************************************)
VARIABLES
    ss, es,         \* self.ss, self.es: samples of the event being decoded
    ssb,            \* self.ssb: start sample of the transmission block
    ssd, esd,       \* self.ssd, self.esd: samples of the data block
    bits,           \* self.bits: list of [bit, startsample, endsample]
    bytes,          \* self.bytes: list of recent bytes
    write,          \* self.write
    state,          \* self.state
    addr,           \* self.addr
    reg,            \* self.reg
    second, minute, hour, weekday, day, month, year,
    options,        \* self.options: radix, start_weekday, date_format
    out,            \* annotations put by the last decode call, in order
    fault,          \* exception raised by the last decode call, or "none"
    cmd, databyte,  \* the data argument of the last decode call
    sent,           \* upstream: number of bus events delivered so far
    wire            \* upstream: byte whose BITS packet was delivered and
                    \* whose byte event is due next, or -1

dtvars == <<second, minute, hour, weekday, day, month, year>>

cachevars == <<ssd, esd, bits, bytes>>

vars == <<ss, es, ssb, ssd, esd, bits, bytes, write, state, addr, reg,
          second, minute, hour, weekday, day, month, year, options,
          out, fault, cmd, databyte, sent, wire>>

(***************************************************************************)
(* Small methods of the decoder.                                           *)
(***************************************************************************)
\* format_data (lines 422-424): radixes[self.options["radix"]].format(data).
format_data(data, opts) ==
    CASE opts.radix = "Hex" -> "0x" \o ToBase(data, 16)
      [] opts.radix = "Dec" -> ToString(data)
      [] opts.radix = "Oct" -> "0o" \o ToBase(data, 8)

\* format_action (lines 426-429).
format_action(wr) == info[IF wr THEN AnnInfo_WRITE ELSE AnnInfo_READ]

\* put_data (lines 369-376): from the start of bit_start to the end of bit_stop.
put_data(bs, bit_start, bit_stop, cls, annots) ==
    put(bs[bit_start + 1][2], bs[bit_stop + 1][3], cls, annots)

\* put_bit_reserve (lines 388-396).
put_bit_reserve(bs, bit_reserved) ==
    put(bs[bit_reserved + 1][2], bs[bit_reserved + 1][3], AnnBits_RESERVED,
        compose_annot(bits_labels[AnnBits_RESERVED], <<>>, <<>>, <<>>))

\* The register row annotation that ends every register handler.
put_reg(sd, ed, cls, wr) ==
    put(sd, ed, cls, compose_annot(registers[cls], <<>>, <<>>, format_action(wr)))

\* seq[i] of Python for a tuple and an index that may be negative.
PyIndex(seq, i) == IF i < 0 THEN seq[Len(seq) + i + 1] ELSE seq[i + 1]

(***************************************************************************)
(* Register handlers (lines 489-683).  b is self.bytes[0], bs is           *)
(* self.bits, sd/ed are self.ssd/self.esd, wr is self.write.  Each returns *)
(* the annotations it puts, the value it stores in its field (val) and the *)
(* exception it raises ("none" when it returns).                           *)
(***************************************************************************)
handle_reg_0x00(b, bs, sd, ed, wr, opts) ==
    LET ch == Bit(b, TimeBits_CH)
        ch_l == IF ch = 1 THEN "Halt" ELSE "Run"
        ch_s == IF ch = 1 THEN "H" ELSE "R"
        v == bcd2int(b - Bit(b, TimeBits_CH) * (2 ^ TimeBits_CH))
    IN [val |-> v, raised |-> "none",
        puts |-> <<
          put_data(bs, TimeBits_CH, TimeBits_CH, AnnBits_CH,
                   compose_annot(bits_labels[AnnBits_CH], <<ch, ch_l, ch_s>>, <<>>, <<>>)),
          put_data(bs, TimeBits_CH - 1, 0, AnnBits_SECOND,
                   compose_annot(bits_labels[AnnBits_SECOND], <<v>>, <<>>, <<>>)),
          put_reg(sd, ed, AnnRegs_SECOND, wr) >>]

handle_reg_0x01(b, bs, sd, ed, wr, opts) ==
    LET v == bcd2int(LowBits(b, 7))
    IN [val |-> v, raised |-> "none",
        puts |-> <<
          put_bit_reserve(bs, 7),
          put_data(bs, 6, 0, AnnBits_MINUTE,
                   compose_annot(bits_labels[AnnBits_MINUTE], <<v>>, <<>>, <<>>)),
          put_reg(sd, ed, AnnRegs_MINUTE, wr) >>]

\* handle_reg_0x02 adding 12 for PM without first taking the hour modulo 12.
handle_reg_0x02_no_mod(b, bs, sd, ed, wr, opts) ==
    LET mode12h == Bit(b, TimeBits_MODE) = 1
        pm == Bit(b, TimeBits_AMPM)
        pm_l == IF pm = 1 THEN "PM" ELSE "AM"
        pm_s == IF pm = 1 THEN "P" ELSE "A"
        h12 == bcd2int(LowBits(b, 5)) + (IF pm = 1 THEN 12 ELSE 0)
        h24 == bcd2int(LowBits(b, 6))
    IN IF mode12h
       THEN [val |-> h12, raised |-> "none",
             puts |-> <<
               put_bit_reserve(bs, 7),
               put_data(bs, TimeBits_MODE, TimeBits_MODE, AnnBits_MODE,
                        compose_annot(bits_labels[AnnBits_MODE], <<"12h">>, <<>>, <<>>)),
               put_data(bs, TimeBits_AMPM, TimeBits_AMPM, AnnBits_AMPM,
                        compose_annot(bits_labels[AnnBits_AMPM], <<pm, pm_l, pm_s>>, <<>>, <<>>)),
               put_data(bs, TimeBits_AMPM - 1, 0, AnnBits_MODE,
                        compose_annot(bits_labels[AnnBits_HOUR], <<h12>>, <<>>, <<>>)),
               put_reg(sd, ed, AnnRegs_HOUR, wr) >>]
       ELSE [val |-> h24, raised |-> "none",
             puts |-> <<
               put_bit_reserve(bs, 7),
               put_data(bs, TimeBits_MODE, TimeBits_MODE, AnnBits_MODE,
                        compose_annot(bits_labels[AnnBits_MODE], <<"24h">>, <<>>, <<>>)),
               put_data(bs, TimeBits_MODE - 1, 0, AnnBits_MODE,
                        compose_annot(bits_labels[AnnBits_HOUR], <<h24>>, <<>>, <<>>)),
               put_reg(sd, ed, AnnRegs_HOUR, wr) >>]

\* Lines 521-564.
handle_reg_0x02(b, bs, sd, ed, wr, opts) ==
    LET mode12h == Bit(b, TimeBits_MODE) = 1
        pm == Bit(b, TimeBits_AMPM)
        pm_l == IF pm = 1 THEN "PM" ELSE "AM"
        pm_s == IF pm = 1 THEN "P" ELSE "A"
        h12 == (bcd2int(LowBits(b, 5)) % 12) + (IF pm = 1 THEN 12 ELSE 0)
        h24 == bcd2int(LowBits(b, 6))
    IN IF mode12h
       THEN [val |-> h12, raised |-> "none",
             puts |-> <<
               put_bit_reserve(bs, 7),
               put_data(bs, TimeBits_MODE, TimeBits_MODE, AnnBits_MODE,
                        compose_annot(bits_labels[AnnBits_MODE], <<"12h">>, <<>>, <<>>)),
               put_data(bs, TimeBits_AMPM, TimeBits_AMPM, AnnBits_AMPM,
                        compose_annot(bits_labels[AnnBits_AMPM], <<pm, pm_l, pm_s>>, <<>>, <<>>)),
               put_data(bs, TimeBits_AMPM - 1, 0, AnnBits_MODE,
                        compose_annot(bits_labels[AnnBits_HOUR], <<h12>>, <<>>, <<>>)),
               put_reg(sd, ed, AnnRegs_HOUR, wr) >>]
       ELSE [val |-> h24, raised |-> "none",
             puts |-> <<
               put_bit_reserve(bs, 7),
               put_data(bs, TimeBits_MODE, TimeBits_MODE, AnnBits_MODE,
                        compose_annot(bits_labels[AnnBits_MODE], <<"24h">>, <<>>, <<>>)),
               put_data(bs, TimeBits_MODE - 1, 0, AnnBits_MODE,
                        compose_annot(bits_labels[AnnBits_HOUR], <<h24>>, <<>>, <<>>)),
               put_reg(sd, ed, AnnRegs_HOUR, wr) >>]

\* handle_reg_0x03 taking the chip weekday as counted from 0.
handle_reg_0x03_no_rebase(b, bs, sd, ed, wr, opts) ==
    LET chip == bcd2int(LowBits(b, 3))
        found == {i \in 0..6 : weekdays[i + 1] = opts.start_weekday}
        start_weekday_index ==
            IF found = {} THEN 0 ELSE CHOOSE i \in found : \A j \in found : i <= j
        v == (start_weekday_index + chip) % 7
    IN [val |-> v, raised |-> "none",
        puts |-> <<
          put_bit_reserve(bs, 7), put_bit_reserve(bs, 6), put_bit_reserve(bs, 5),
          put_bit_reserve(bs, 4), put_bit_reserve(bs, 3),
          put_data(bs, 2, 0, AnnBits_WEEKDAY,
                   compose_annot(bits_labels[AnnBits_WEEKDAY], <<weekdays[v + 1]>>, <<>>, <<>>)),
          put_reg(sd, ed, AnnRegs_WEEKDAY, wr) >>]

\* handle_reg_0x03 counting the week from Sunday for the American date format.
handle_reg_0x03_locale(b, bs, sd, ed, wr, opts) ==
    LET chip == bcd2int(LowBits(b, 3))
        found == {i \in 0..6 : weekdays[i + 1] = opts.start_weekday}
        start_weekday_index ==
            IF found = {} THEN 0 ELSE CHOOSE i \in found : \A j \in found : i <= j
        v == (start_weekday_index + chip - 1
              + (IF opts.date_format = "American" THEN 1 ELSE 0)) % 7
    IN [val |-> v, raised |-> "none",
        puts |-> <<
          put_bit_reserve(bs, 7), put_bit_reserve(bs, 6), put_bit_reserve(bs, 5),
          put_bit_reserve(bs, 4), put_bit_reserve(bs, 3),
          put_data(bs, 2, 0, AnnBits_WEEKDAY,
                   compose_annot(bits_labels[AnnBits_WEEKDAY], <<weekdays[v + 1]>>, <<>>, <<>>)),
          put_reg(sd, ed, AnnRegs_WEEKDAY, wr) >>]

\* Lines 566-593.
handle_reg_0x03(b, bs, sd, ed, wr, opts) ==
    LET chip == bcd2int(LowBits(b, 3))
        found == {i \in 0..6 : weekdays[i + 1] = opts.start_weekday}
        start_weekday_index ==
            IF found = {} THEN 0 ELSE CHOOSE i \in found : \A j \in found : i <= j
        v == (start_weekday_index + chip - 1) % 7
    IN [val |-> v, raised |-> "none",
        puts |-> <<
          put_bit_reserve(bs, 7), put_bit_reserve(bs, 6), put_bit_reserve(bs, 5),
          put_bit_reserve(bs, 4), put_bit_reserve(bs, 3),
          put_data(bs, 2, 0, AnnBits_WEEKDAY,
                   compose_annot(bits_labels[AnnBits_WEEKDAY], <<weekdays[v + 1]>>, <<>>, <<>>)),
          put_reg(sd, ed, AnnRegs_WEEKDAY, wr) >>]

\* handle_reg_0x04 masking the day with 0x7f instead of 0x3f.
handle_reg_0x04_mask7(b, bs, sd, ed, wr, opts) ==
    LET v == bcd2int(LowBits(b, 7))
    IN [val |-> v, raised |-> "none",
        puts |-> <<
          put_bit_reserve(bs, 7), put_bit_reserve(bs, 6),
          put_data(bs, 5, 0, AnnBits_DAY,
                   compose_annot(bits_labels[AnnBits_DAY], <<v>>, <<>>, <<>>)),
          put_reg(sd, ed, AnnRegs_DAY, wr) >>]

\* Lines 595-607.
handle_reg_0x04(b, bs, sd, ed, wr, opts) ==
    LET v == bcd2int(LowBits(b, 6))
    IN [val |-> v, raised |-> "none",
        puts |-> <<
          put_bit_reserve(bs, 7), put_bit_reserve(bs, 6),
          put_data(bs, 5, 0, AnnBits_DAY,
                   compose_annot(bits_labels[AnnBits_DAY], <<v>>, <<>>, <<>>)),
          put_reg(sd, ed, AnnRegs_DAY, wr) >>]

\* months[self.month] raises IndexError past the end of the tuple; self.month
\* is assigned and the reserved bits are put before that.
handle_reg_0x05(b, bs, sd, ed, wr, opts) ==
    LET v == bcd2int(LowBits(b, 5))
        rsvd == <<put_bit_reserve(bs, 7), put_bit_reserve(bs, 6), put_bit_reserve(bs, 5)>>
    IN IF v >= Len(months)
       THEN [val |-> v, raised |-> "IndexError", puts |-> rsvd]
       ELSE [val |-> v, raised |-> "none",
             puts |-> rsvd \o <<
               put_data(bs, 4, 0, AnnBits_MONTH,
                        compose_annot(bits_labels[AnnBits_MONTH], <<months[v + 1]>>, <<>>, <<>>)),
               put_reg(sd, ed, AnnRegs_MONTH, wr) >>]

handle_reg_0x06(b, bs, sd, ed, wr, opts) ==
    LET v == bcd2int(LowBits(b, 8)) + 2000
    IN [val |-> v, raised |-> "none",
        puts |-> <<
          put_data(bs, 7, 0, AnnBits_YEAR,
                   compose_annot(bits_labels[AnnBits_YEAR], <<v>>, <<>>, <<>>)),
          put_reg(sd, ed, AnnRegs_YEAR, wr) >>]

\* The control register stores no datetime field: val is unused.
handle_reg_0x07(b, bs, sd, ed, wr, opts) ==
    LET outbit == Bit(b, ControlBits_OUT)
        sqwe == Bit(b, ControlBits_SQWE)
        sqwe_l == (IF sqwe = 1 THEN "en" ELSE "dis") \o "abled"
        sqwe_s == IF sqwe = 1 THEN "E" ELSE "D"
        rate == rates[LowBits(b, 2)]
        annots == compose_annot(bits_labels[AnnBits_RS0], <<rate>>,
                                <<params.UNIT_HZ>>, <<>>)
        annots_add == compose_annot(bits_labels[AnnBits_RS0], <<rate \div 1000>>,
                                    <<params.UNIT_KHZ>>, <<>>)
    IN [val |-> 0, raised |-> "none",
        puts |-> <<
          put_bit_reserve(bs, 6), put_bit_reserve(bs, 5),
          put_bit_reserve(bs, 3), put_bit_reserve(bs, 2),
          put_data(bs, ControlBits_OUT, ControlBits_OUT, AnnBits_OUT,
                   compose_annot(bits_labels[AnnBits_OUT], <<outbit>>, <<>>, <<>>)),
          put_data(bs, ControlBits_SQWE, ControlBits_SQWE, AnnBits_SQWE,
                   compose_annot(bits_labels[AnnBits_SQWE], <<sqwe, sqwe_l, sqwe_s>>, <<>>, <<>>)),
          put_data(bs, ControlBits_RS1, ControlBits_RS0, AnnBits_RS0,
                   annots \o annots_add),
          put_reg(sd, ed, AnnRegs_CONTROL, wr) >>]

\* NVRAM stores no datetime field: val is unused.
handle_reg_0x3f(b, bs, sd, ed, wr, opts) ==
    [val |-> 0, raised |-> "none",
     puts |-> <<
       put_data(bs, 7, 0, AnnBits_NVRAM,
                compose_annot(bits_labels[AnnBits_NVRAM], <<format_data(b, opts)>>, <<>>, <<>>)),
       put_reg(sd, ed, AnnRegs_NVRAM, wr) >>]

\* Line 481: the handler index of register pointer r.
handler_of(r) == IF r < NvRAM_MIN THEN r ELSE NvRAM_MAX

\* Lines 482-483: getattr(self, "handle_reg_{:#04x}".format(reg)) and the call.
\* Only the names for 0x00..0x07 and 0x3f exist; any other raises AttributeError.
call_handler(r, b, bs, sd, ed, wr, opts) ==
    LET h == handler_of(r)
    IN CASE h = 0 -> handle_reg_0x00(b, bs, sd, ed, wr, opts)
         [] h = 1 -> handle_reg_0x01(b, bs, sd, ed, wr, opts)
         [] h = 2 -> handle_reg_0x02(b, bs, sd, ed, wr, opts)
         [] h = 3 -> handle_reg_0x03(b, bs, sd, ed, wr, opts)
         [] h = 4 -> handle_reg_0x04(b, bs, sd, ed, wr, opts)
         [] h = 5 -> handle_reg_0x05(b, bs, sd, ed, wr, opts)
         [] h = 6 -> handle_reg_0x06(b, bs, sd, ed, wr, opts)
         [] h = 7 -> handle_reg_0x07(b, bs, sd, ed, wr, opts)
         [] h = NvRAM_MAX -> handle_reg_0x3f(b, bs, sd, ed, wr, opts)
         [] OTHER -> [val |-> 0, raised |-> "AttributeError", puts |-> <<>>]

\* Lines 484-486: address auto increment and rollover.
next_reg(r) == IF r + 1 > NvRAM_MAX THEN 0 ELSE r + 1

(***************************************************************************)
(* output_datetime (lines 431-456).                                        *)
(***************************************************************************)
\* The format string selected by date_format, as its replacement fields
\* [arg, width] (width 0 for "{3:s}") and the literal text between them.
format_datetime(opts) ==
    LET F(a, w) == [arg |-> a, width |-> w]
        L(t) == [lit |-> t]
    IN CASE opts.date_format = "European" ->
              <<F(3, 0), L(" "), F(4, 2), L("."), F(5, 2), L("."), F(6, 4),
                L(" "), F(2, 2), L(":"), F(1, 2), L(":"), F(0, 2)>>
         [] opts.date_format = "American" ->
              <<F(3, 0), L(", "), F(5, 2), L("/"), F(4, 2), L("/"), F(6, 4),
                L(" "), F(2, 2), L(":"), F(1, 2), L(":"), F(0, 2)>>
         [] opts.date_format = "ANSI" ->
              <<F(6, 4), L("-"), F(4, 2), L("-"), F(5, 2), L("T"),
                F(2, 2), L(":"), F(1, 2), L(":"), F(0, 2)>>
         [] OTHER -> <<L("Unknown format")>>

\* str.format(*args) for such a format string; args[i + 1] is argument i.
str_format(fmt, args) ==
    LET Piece(p) == IF "lit" \in DOMAIN p THEN p.lit
                    ELSE IF p.width = 0 THEN args[p.arg + 1]
                    ELSE PadInt(args[p.arg + 1], p.width)
    IN JoinStr([i \in 1..Len(fmt) |-> Piece(fmt[i])])

\* dt_str of lines 449-452.
dt_str(opts, sec, mnt, hr, wd, dy, mon, yr) ==
    str_format(format_datetime(opts),
               <<sec, mnt, hr, PyIndex(weekdays, wd), dy, mon, yr>>)

output_datetime(opts, sec, mnt, hr, wd, dy, mon, yr, wr, sb, e) ==
    put(sb, e, AnnInfo_DATETIME,
        compose_annot(info[AnnInfo_DATETIME],
                      <<dt_str(opts, sec, mnt, hr, wd, dy, mon, yr)>>,
                      <<>>, format_action(wr)))

\* handle_nodata putting under the datetime annotation instead of the check.
handle_nodata_datetime(sb, e) ==
    put(sb, e, AnnInfo_DATETIME, compose_annot(info[AnnInfo_CHECK], <<>>, <<>>, <<>>))

\* handle_nodata (lines 468-472).
handle_nodata(sb, e) ==
    put(sb, e, AnnInfo_CHECK, compose_annot(info[AnnInfo_CHECK], <<>>, <<>>, <<>>))

\* check_addr (lines 398-405), the comparison of line 400.
check_addr(addr_slave) == addr_slave = Address_SLAVE

(***************************************************************************)
(* decode (lines 685-747), one branch of the state machine per operator.   *)
(* s, e are startsample, endsample; c, d are cmd, databyte.                *)
(***************************************************************************)
\* collect_data (lines 407-415): the byte cache and the data block start.
collect_bytes(d) == IF Len(bytes) = 0 THEN <<d>> ELSE <<d>> \o bytes

collect_ssd(s) == IF Len(bytes) = 0 THEN s ELSE ssd

\* clear_data (lines 416-420).
clear_data == ssd' = 0 /\ esd' = 0 /\ bytes' = <<>> /\ bits' = <<>>

\* ignore dropping the cached bits and bytes of the event it skips.
ignore_clear ==
    /\ out' = <<>>
    /\ fault' = "none"
    /\ clear_data
    /\ UNCHANGED <<ssb, write, state, addr, reg, dtvars>>

\* An event the current state does not handle: nothing but ss, es changes.
ignore ==
    /\ out' = <<>>
    /\ fault' = "none"
    /\ UNCHANGED <<ssb, cachevars, write, state, addr, reg, dtvars>>

\* Lines 704-709.
decode_IDLE(s, e, c, d) ==
    IF c # "START" THEN ignore
    ELSE /\ ssb' = s
         /\ state' = "ADDRESS SLAVE"
         /\ out' = <<>>
         /\ fault' = "none"
         /\ UNCHANGED <<cachevars, write, addr, reg, dtvars>>

\* Lines 398-405 for a foreign address: compose_annot is given the
\* annotation index AnnInfo.BADADD (an int) as the label and self.addr as
\* the value.
bad_addr(s, e) ==
    LET lbl == <<AnnInfo_BADADD>>
        val == <<format_data(addr, options)>>
    IN IF compose_raises(lbl, val, <<>>, <<>>)
       THEN /\ fault' = "TypeError"
            /\ out' = <<>>
            /\ UNCHANGED state
       ELSE /\ fault' = "none"
            /\ out' = <<put(ssb, e, AnnInfo_BADADD,
                            compose_annot(lbl, val, <<>>, <<>>))>>
            /\ state' = "IDLE"

\* Lines 711-724.
decode_ADDRESS_SLAVE(s, e, c, d) ==
    IF c \notin {"ADDRESS WRITE", "ADDRESS READ"} THEN ignore
    ELSE IF check_addr(d)
    THEN /\ addr' = collect_bytes(d)[1]
         /\ out' = <<put(collect_ssd(s), e, AnnAddrs_SLAVE,
                         compose_annot(addresses[AnnAddrs_SLAVE], <<>>, <<>>, <<>>))>>
         /\ clear_data
         /\ write' = (c = "ADDRESS WRITE")
         /\ state' = IF c = "ADDRESS READ" THEN "REGISTER DATA"
                     ELSE "REGISTER ADDRESS"
         /\ fault' = "none"
         /\ UNCHANGED <<ssb, reg, dtvars>>
    ELSE /\ bad_addr(s, e)
         /\ UNCHANGED <<ssb, cachevars, write, addr, reg, dtvars>>

\* pointer_write without the change of state.
pointer_write_stay(d) ==
    /\ reg' = d
    /\ state' = "REGISTER ADDRESS"
    /\ out' = <<>>
    /\ fault' = "none"
    /\ UNCHANGED <<ssb, cachevars, write, addr, dtvars>>

\* Lines 728-730: the initial slave register.
pointer_write(d) ==
    /\ reg' = d
    /\ state' = "REGISTER DATA"
    /\ out' = <<>>
    /\ fault' = "none"
    /\ UNCHANGED <<ssb, cachevars, write, addr, dtvars>>

\* pointer_stop without the return to IDLE.
pointer_stop_stay(e) ==
    /\ out' = <<handle_nodata(ssb, e)>>
    /\ state' = "REGISTER ADDRESS"
    /\ fault' = "none"
    /\ UNCHANGED <<ssb, cachevars, write, addr, reg, dtvars>>

\* Lines 731-734: end of transmission without any register and data.
pointer_stop(e) ==
    /\ out' = <<handle_nodata(ssb, e)>>
    /\ state' = "IDLE"
    /\ fault' = "none"
    /\ UNCHANGED <<ssb, cachevars, write, addr, reg, dtvars>>

\* Lines 726-734.
decode_REGISTER_ADDRESS(s, e, c, d) ==
    CASE c = "DATA WRITE" -> pointer_write(d)
      [] c = "STOP" -> pointer_stop(e)
      [] OTHER -> ignore

\* handle_reg (lines 474-487) after collect_data, lines 739-741.
handle_reg(s, e, d) ==
    LET by == collect_bytes(d)
        sd == collect_ssd(s)
        h == handler_of(reg)
    IN \E r \in {call_handler(reg, by[1], bits, sd, e, write, options)} :
         LET stored(k, cur) ==
                 IF h = k /\ r.raised # "AttributeError" THEN r.val ELSE cur
         IN /\ out' = r.puts
            /\ fault' = r.raised
            /\ second' = stored(0, second)
            /\ minute' = stored(1, minute)
            /\ hour' = stored(2, hour)
            /\ weekday' = stored(3, weekday)
            /\ day' = stored(4, day)
            /\ month' = stored(5, month)
            /\ year' = stored(6, year)
            /\ IF r.raised = "none"
               THEN /\ reg' = next_reg(reg)
                    /\ clear_data
               ELSE /\ reg' = reg
                    /\ ssd' = sd /\ esd' = e /\ bytes' = by /\ bits' = bits
            /\ state' = "REGISTER DATA"
            /\ UNCHANGED <<ssb, write, addr>>

\* Lines 742-743.
data_start_repeat ==
    /\ state' = "ADDRESS SLAVE"
    /\ out' = <<>>
    /\ fault' = "none"
    /\ UNCHANGED <<ssb, cachevars, write, addr, reg, dtvars>>

\* data_stop with the datetime block starting at self.ss instead of self.ssb.
data_stop_from_ss(e) ==
    /\ out' = <<output_datetime(options, second, minute, hour, weekday,
                                day, month, year, write, ss', e)>>
    /\ state' = "IDLE"
    /\ fault' = "none"
    /\ UNCHANGED <<ssb, cachevars, write, addr, reg, dtvars>>

\* data_stop forgetting the datetime fields once they are put.
data_stop_reset(e) ==
    /\ out' = <<output_datetime(options, second, minute, hour, weekday,
                                day, month, year, write, ssb, e)>>
    /\ state' = "IDLE"
    /\ fault' = "none"
    /\ second' = -1 /\ minute' = -1 /\ hour' = -1 /\ weekday' = -1
    /\ day' = -1 /\ month' = -1 /\ year' = -1
    /\ UNCHANGED <<ssb, cachevars, write, addr, reg>>

\* Lines 744-747.
data_stop(e) ==
    /\ out' = <<output_datetime(options, second, minute, hour, weekday,
                                day, month, year, write, ssb, e)>>
    /\ state' = "IDLE"
    /\ fault' = "none"
    /\ UNCHANGED <<ssb, cachevars, write, addr, reg, dtvars>>

\* decode_REGISTER_DATA taking a START for a repeated start.
decode_REGISTER_DATA_restart(s, e, c, d) ==
    CASE c \in {"DATA WRITE", "DATA READ"} -> handle_reg(s, e, d)
      [] c \in {"START", "START REPEAT"} -> data_start_repeat
      [] c = "STOP" -> data_stop(e)
      [] OTHER -> ignore

\* Lines 736-747.
decode_REGISTER_DATA(s, e, c, d) ==
    CASE c \in {"DATA WRITE", "DATA READ"} -> handle_reg(s, e, d)
      [] c = "START REPEAT" -> data_start_repeat
      [] c = "STOP" -> data_stop(e)
      [] OTHER -> ignore

\* decode with a BITS packet replacing self.bits instead of extending it.
decode_bits_replace(s, e, c, d) ==
    /\ cmd' = c
    /\ databyte' = d
    /\ ss' = s
    /\ es' = e
    /\ UNCHANGED options
    /\ IF c = "BITS"
       THEN /\ bits' = d
            /\ out' = <<>>
            /\ fault' = "none"
            /\ UNCHANGED <<ssb, ssd, esd, bytes, write, state, addr, reg, dtvars>>
       ELSE CASE state = "IDLE" -> decode_IDLE(s, e, c, d)
              [] state = "ADDRESS SLAVE" -> decode_ADDRESS_SLAVE(s, e, c, d)
              [] state = "REGISTER ADDRESS" -> decode_REGISTER_ADDRESS(s, e, c, d)
              [] state = "REGISTER DATA" -> decode_REGISTER_DATA(s, e, c, d)

\* decode with a BITS packet put behind the cached spans instead of in front.
decode_bits_append(s, e, c, d) ==
    /\ cmd' = c
    /\ databyte' = d
    /\ ss' = s
    /\ es' = e
    /\ UNCHANGED options
    /\ IF c = "BITS"
       THEN /\ bits' = bits \o d
            /\ out' = <<>>
            /\ fault' = "none"
            /\ UNCHANGED <<ssb, ssd, esd, bytes, write, state, addr, reg, dtvars>>
       ELSE CASE state = "IDLE" -> decode_IDLE(s, e, c, d)
              [] state = "ADDRESS SLAVE" -> decode_ADDRESS_SLAVE(s, e, c, d)
              [] state = "REGISTER ADDRESS" -> decode_REGISTER_ADDRESS(s, e, c, d)
              [] state = "REGISTER DATA" -> decode_REGISTER_DATA(s, e, c, d)

\* Lines 685-747: the BITS packet (lines 690-701), then the state machine.
decode(s, e, c, d) ==
    /\ cmd' = c
    /\ databyte' = d
    /\ ss' = s
    /\ es' = e
    /\ UNCHANGED options
    /\ IF c = "BITS"
       THEN /\ bits' = d \o bits
            /\ out' = <<>>
            /\ fault' = "none"
            /\ UNCHANGED <<ssb, ssd, esd, bytes, write, state, addr, reg, dtvars>>
       ELSE CASE state = "IDLE" -> decode_IDLE(s, e, c, d)
              [] state = "ADDRESS SLAVE" -> decode_ADDRESS_SLAVE(s, e, c, d)
              [] state = "REGISTER ADDRESS" -> decode_REGISTER_ADDRESS(s, e, c, d)
              [] state = "REGISTER DATA" -> decode_REGISTER_DATA(s, e, c, d)

(***************************************************************************)
(* The upstream I2C decoder.  Event number n occupies the samples from     *)
(* 10 n: a condition (START, START REPEAT, STOP) is put at that sample, a  *)
(* byte takes one sample per bit from it, most significant bit first, and  *)
(* is announced by a BITS packet listing its bits from the least           *)
(* significant one.                                                        *)
(***************************************************************************)
\* Byte values the bus carries in the model.  Address bytes: a foreign
\* slave and the DS1307.  Data bytes: the hours register pointer, the month
\* register pointer (May as a month), 0x13 (a month beyond December) and
\* 0x3f (the last NVRAM cell).
AddressBytes == {80, 104}

DataBytes == {2, 5, 19, 63}

InputBytes == AddressBytes \cup DataBytes

bits_packet(b, n) ==
    [i \in 1..8 |-> <<Bit(b, i - 1), (10 * n) + 8 - i, (10 * n) + 9 - i>>]

\* reset (lines 258-279) and the options the host sets before decoding.
Init ==
    /\ ss = 0 /\ es = 0 /\ ssb = 0 /\ ssd = 0 /\ esd = 0
    /\ bits = <<>> /\ bytes = <<>>
    /\ write = TRUE
    /\ state = "IDLE"
    /\ addr = Address_SLAVE
    /\ reg = -1
    /\ second = -1 /\ minute = -1 /\ hour = -1 /\ weekday = -1
    /\ day = -1 /\ month = -1 /\ year = -1
    /\ options \in [radix : {"Hex"}, start_weekday : {"Monday"},
                    date_format : date_formats]
    /\ out = <<>>
    /\ fault = "none"
    /\ cmd = "" /\ databyte = <<>>
    /\ sent = 0
    /\ wire = -1

\* The host stops calling decode once it has raised.
CanSend == fault = "none" /\ sent < MaxEvents

Start ==
    /\ CanSend
    /\ wire = -1
    /\ decode(10 * sent, 10 * sent, "START", <<>>)
    /\ sent' = sent + 1
    /\ UNCHANGED wire

StartRepeat ==
    /\ CanSend
    /\ wire = -1
    /\ decode(10 * sent, 10 * sent, "START REPEAT", <<>>)
    /\ sent' = sent + 1
    /\ UNCHANGED wire

Stop ==
    /\ CanSend
    /\ wire = -1
    /\ decode(10 * sent, 10 * sent, "STOP", <<>>)
    /\ sent' = sent + 1
    /\ UNCHANGED wire

BitSpans ==
    \E b \in InputBytes :
        /\ CanSend
        /\ wire = -1
        /\ decode(10 * sent, (10 * sent) + 8, "BITS", bits_packet(b, sent))
        /\ wire' = b
        /\ UNCHANGED sent

AddressWrite ==
    /\ CanSend
    /\ wire \in AddressBytes
    /\ decode(10 * sent, (10 * sent) + 8, "ADDRESS WRITE", wire)
    /\ sent' = sent + 1
    /\ wire' = -1

AddressRead ==
    /\ CanSend
    /\ wire \in AddressBytes
    /\ decode(10 * sent, (10 * sent) + 8, "ADDRESS READ", wire)
    /\ sent' = sent + 1
    /\ wire' = -1

DataWrite ==
    /\ CanSend
    /\ wire \in DataBytes
    /\ decode(10 * sent, (10 * sent) + 8, "DATA WRITE", wire)
    /\ sent' = sent + 1
    /\ wire' = -1

DataRead ==
    /\ CanSend
    /\ wire \in DataBytes
    /\ decode(10 * sent, (10 * sent) + 8, "DATA READ", wire)
    /\ sent' = sent + 1
    /\ wire' = -1

Next ==
    \/ BitSpans
    \/ Start
    \/ StartRepeat
    \/ Stop
    \/ AddressWrite
    \/ AddressRead
    \/ DataWrite
    \/ DataRead

Spec == Init /\ [][Next]_vars

(***************************************************************************)
(* One byte of a write transaction, for every value of the byte.  The      *)
(* decoder has been given Start, the bits and the address byte 0x68 of a   *)
(* write, and the bits of the next byte: either the register pointer byte  *)
(* (PointerInit), or, the pointer byte ptr having been decoded, the first  *)
(* data byte (DataInit).  The byte itself is then decoded.                 *)
(***************************************************************************)
AllBytes == 0..255

\* Register pointers: the timekeeping and control registers, the first and
\* the last two NVRAM cells, and a pointer byte beyond the register map.
RegPointers == (0..NvRAM_MIN) \cup {NvRAM_MAX - 1, NvRAM_MAX, 200}

\* Lines 258-279 and the options of lines 238-245 that the handlers read.
RegOptions ==
    [radix : {"Hex"},
     start_weekday : {weekdays[i] : i \in 1..Len(weekdays)},
     date_format : {"European"}]

\* After Start, BITS, ADDRESS WRITE 0x68 and the BITS of the byte b.
PointerInit ==
    \E b \in AllBytes :
        /\ ss = 20 /\ es = 28 /\ ssb = 0 /\ ssd = 0 /\ esd = 0
        /\ bits = bits_packet(b, 2) /\ bytes = <<>>
        /\ write = TRUE
        /\ state = "REGISTER ADDRESS"
        /\ addr = Address_SLAVE
        /\ reg = -1
        /\ cmd = "BITS" /\ databyte = bits_packet(b, 2)
        /\ sent = 2
        /\ wire = b

\* After Start, BITS, ADDRESS WRITE 0x68, BITS, DATA WRITE ptr and the BITS
\* of the byte b; the bits of the pointer byte are still in self.bits.
DataInit ==
    \E ptr \in RegPointers, b \in AllBytes :
        /\ ss = 30 /\ es = 38 /\ ssb = 0 /\ ssd = 0 /\ esd = 0
        /\ bits = bits_packet(b, 3) \o bits_packet(ptr, 2) /\ bytes = <<>>
        /\ write = TRUE
        /\ state = "REGISTER DATA"
        /\ addr = Address_SLAVE
        /\ reg = ptr
        /\ cmd = "BITS" /\ databyte = bits_packet(b, 3)
        /\ sent = 3
        /\ wire = b

RegInit ==
    /\ PointerInit \/ DataInit
    /\ second = -1 /\ minute = -1 /\ hour = -1 /\ weekday = -1
    /\ day = -1 /\ month = -1 /\ year = -1
    /\ options \in RegOptions
    /\ out = <<>>
    /\ fault = "none"

\* Lines 726-730: the byte after the address is the register pointer.
PointerByte ==
    /\ CanSend
    /\ wire \in AllBytes
    /\ state = "REGISTER ADDRESS"
    /\ decode(10 * sent, (10 * sent) + 8, "DATA WRITE", wire)
    /\ sent' = sent + 1
    /\ wire' = -1

\* Lines 736-741: a byte written to the register the pointer selects.
RegisterByte ==
    /\ CanSend
    /\ wire \in AllBytes
    /\ state = "REGISTER DATA"
    /\ decode(10 * sent, (10 * sent) + 8, "DATA WRITE", wire)
    /\ sent' = sent + 1
    /\ wire' = -1

RegNext ==
    \/ PointerByte
    \/ RegisterByte

RegSpec == RegInit /\ [][RegNext]_vars

(***************************************************************************)
(* A read-only transaction after a write transaction.  The decoder has     *)
(* been given Start, the bits and the address byte 0x68 of a write, the    *)
(* bits and the pointer byte ptr, and Stop; the bus then carries starts,   *)
(* address reads, data reads and stops.                                    *)
(***************************************************************************)
\* Number of bus events up to the end of the later transaction.
MaxLaterEvents == 8

\* The pointers the first transaction leaves: those of RegPointers that are
\* registers of the chip.
LaterPointers == RegPointers \cap (0..NvRAM_MAX)

\* After Start, BITS, ADDRESS WRITE 0x68, BITS, DATA WRITE ptr and STOP: the
\* Stop has put the datetime of the fields of reset (lines 744-747).
LaterInit ==
    /\ ss = 30 /\ es = 30 /\ ssb = 0 /\ ssd = 0 /\ esd = 0
    /\ bytes = <<>>
    /\ write = TRUE
    /\ state = "IDLE"
    /\ addr = Address_SLAVE
    /\ reg \in LaterPointers
    /\ bits = bits_packet(reg, 2)
    /\ second = -1 /\ minute = -1 /\ hour = -1 /\ weekday = -1
    /\ day = -1 /\ month = -1 /\ year = -1
    /\ options = [radix |-> "Hex", start_weekday |-> "Monday",
                  date_format |-> "European"]
    /\ out = <<output_datetime(options, -1, -1, -1, -1, -1, -1, -1,
                               TRUE, 0, 30)>>
    /\ fault = "none"
    /\ cmd = "STOP" /\ databyte = <<>>
    /\ sent = 4
    /\ wire = -1

\* The host stops calling decode once it has raised.
CanSendLater == fault = "none" /\ sent < MaxLaterEvents

LaterStart ==
    /\ CanSendLater
    /\ wire = -1
    /\ decode(10 * sent, 10 * sent, "START", <<>>)
    /\ sent' = sent + 1
    /\ UNCHANGED wire

LaterStop ==
    /\ CanSendLater
    /\ wire = -1
    /\ decode(10 * sent, 10 * sent, "STOP", <<>>)
    /\ sent' = sent + 1
    /\ UNCHANGED wire

LaterBitSpans ==
    \E b \in {Address_SLAVE} \cup DataBytes :
        /\ CanSendLater
        /\ wire = -1
        /\ decode(10 * sent, (10 * sent) + 8, "BITS", bits_packet(b, sent))
        /\ wire' = b
        /\ UNCHANGED sent

LaterAddressRead ==
    /\ CanSendLater
    /\ wire = Address_SLAVE
    /\ decode(10 * sent, (10 * sent) + 8, "ADDRESS READ", wire)
    /\ sent' = sent + 1
    /\ wire' = -1

LaterDataRead ==
    /\ CanSendLater
    /\ wire \in DataBytes
    /\ decode(10 * sent, (10 * sent) + 8, "DATA READ", wire)
    /\ sent' = sent + 1
    /\ wire' = -1

LaterNext ==
    \/ LaterBitSpans
    \/ LaterStart
    \/ LaterStop
    \/ LaterAddressRead
    \/ LaterDataRead

LaterSpec == LaterInit /\ [][LaterNext]_vars

(***************************************************************************)
(* Vocabulary of the properties.                                           *)
(***************************************************************************)
\* The register row annotation of the register a pointer value selects.
RegClass(r) == IF r < NvRAM_MIN THEN AnnRegs_SECOND + r ELSE AnnRegs_NVRAM

\* The annotation classes put by the last decode call.
OutClasses == {out[i].cls : i \in 1..Len(out)}

\* The step decodes event c in decoder state st.
Handles(st, c) == state = st /\ cmd' = c

(***************************************************************************)
(* Properties.                                                             *)
(***************************************************************************)
\* C1: in DataPhase every data byte (DataWrite or DataRead) decoded at a
\* pointer in 0x00..0x3F is decoded as the register the pointer selects
\* (0x08..0x3F by the NVRAM handler) and advances the pointer by one,
\* wrapping from 0x3F to 0x00.
C1_PointerAdvances ==
    [][(state = "REGISTER DATA" /\ cmd' \in {"DATA WRITE", "DATA READ"}
        /\ reg \in 0..NvRAM_MAX)
       => /\ reg' = (reg + 1) % (NvRAM_MAX + 1)
          /\ Len(out') > 0
          /\ out'[Len(out')].cls = RegClass(reg)]_vars

\* C2: the decoder processes every event of every event sequence without
\* raising a fault.
C2_NeverRaises == fault = "none"

\* C3: an address byte other than 0x68 processed in AddressPhase puts
\* exactly one bad-address annotation and nothing else, and leaves the
\* state machine in Idle.
C3_BadAddressReported ==
    [][(state = "ADDRESS SLAVE" /\ cmd' \in {"ADDRESS WRITE", "ADDRESS READ"}
        /\ databyte' # Address_SLAVE)
       => /\ fault' = "none"
          /\ Len(out') = 1
          /\ out'[1].cls = AnnInfo_BADADD
          /\ state' = "IDLE"]_vars

\* C4: Start, AddressWrite(0x68), Stop puts exactly one presence-check
\* annotation, at the Stop, and no datetime annotation, and ends in Idle:
\* the Start in Idle puts nothing and leads to AddressPhase, the address
\* byte puts only the address annotation and leads to PointerPhase, the
\* Stop there puts exactly the presence check and leads to Idle; and a
\* datetime annotation is put only by a Stop processed in DataPhase.
C4_PresenceCheck ==
    [][/\ Handles("IDLE", "START")
            => out' = <<>> /\ state' = "ADDRESS SLAVE"
       /\ (Handles("ADDRESS SLAVE", "ADDRESS WRITE") /\ databyte' = Address_SLAVE)
            => /\ Len(out') = 1 /\ out'[1].cls = AnnAddrs_SLAVE
               /\ state' = "REGISTER ADDRESS"
       /\ Handles("REGISTER ADDRESS", "STOP")
            => /\ Len(out') = 1 /\ out'[1].cls = AnnInfo_CHECK
               /\ state' = "IDLE"
       /\ (\E i \in 1..Len(out') : out'[i].cls = AnnInfo_DATETIME)
            => Handles("REGISTER DATA", "STOP")]_vars

\* C4 witness: a Stop in PointerPhase has just put the presence check.
C4_Witness ==
    /\ cmd = "STOP" /\ state = "IDLE"
    /\ Len(out) = 1 /\ out[1].cls = AnnInfo_CHECK
    /\ reg = -1

\* C5: in a combined transaction the StartRepeat moves DataPhase to
\* AddressPhase and keeps the pointer, the AddressRead(0x68) flips the
\* direction to read and keeps the pointer, every DataRead at pointer p in
\* 0..63 is decoded as register p with the read direction and moves the
\* pointer to p+1 mod 64, and the Stop puts exactly one datetime annotation
\* with the read direction.
C5_CombinedTransaction ==
    [][/\ Handles("REGISTER DATA", "START REPEAT")
            => state' = "ADDRESS SLAVE" /\ reg' = reg
       /\ (Handles("ADDRESS SLAVE", "ADDRESS READ") /\ databyte' = Address_SLAVE)
            => ~write' /\ state' = "REGISTER DATA" /\ reg' = reg
       /\ (Handles("REGISTER DATA", "DATA READ") /\ ~write /\ reg \in 0..NvRAM_MAX)
            => /\ reg' = (reg + 1) % (NvRAM_MAX + 1)
               /\ Len(out') > 0
               /\ out'[Len(out')].cls = RegClass(reg)
               /\ SubSeq(out'[Len(out')].texts[1], 1, 5) = "Read "
       /\ (Handles("REGISTER DATA", "STOP") /\ ~write)
            => /\ Len(out') = 1 /\ out'[1].cls = AnnInfo_DATETIME
               /\ SubSeq(out'[1].texts[1], 1, 5) = "Read "]_vars

\* C6 as stated: a Start processed in any phase records its sample as the
\* transaction start and puts the machine in AddressPhase.
C6_StartAlwaysRestarts ==
    [][cmd' = "START" => ssb' = ss' /\ state' = "ADDRESS SLAVE"]_vars

\* C6 amended: a Start is acted on in Idle only, where it records its sample
\* as the transaction start and leads to AddressPhase; in AddressPhase,
\* PointerPhase and DataPhase it is ignored: phase, transaction start,
\* pointer, direction, caches and datetime fields stay and nothing is put.
C6_StartOnlyInIdle ==
    [][cmd' = "START"
       => IF state = "IDLE"
          THEN ssb' = ss' /\ state' = "ADDRESS SLAVE"
          ELSE /\ out' = <<>>
               /\ UNCHANGED <<state, ssb, reg, write, cachevars, dtvars>>]_vars

\* C6 witness: a Start was processed in DataPhase of an unfinished
\* transaction that began at an earlier sample.
C6_Witness ==
    cmd = "START" /\ state = "REGISTER DATA" /\ reg >= 0 /\ ssb < ss

\* C7 as stated: after a Stop processed in AddressPhase, PointerPhase or
\* DataPhase the state machine is in Idle.
C7_StopAlwaysIdle ==
    [][(cmd' = "STOP" /\ state # "IDLE") => state' = "IDLE"]_vars

\* C7 amended: after a Stop processed in PointerPhase or DataPhase the state
\* machine is in Idle; a Stop processed in AddressPhase is ignored and the
\* machine stays in AddressPhase.
C7_StopResets ==
    [][cmd' = "STOP"
       => /\ state \in {"REGISTER ADDRESS", "REGISTER DATA"} => state' = "IDLE"
          /\ state = "ADDRESS SLAVE"
               => state' = "ADDRESS SLAVE" /\ out' = <<>>]_vars

\* C7 witness: a Stop in PointerPhase has returned the machine to Idle.
C7_Witness ==
    cmd = "STOP" /\ state = "IDLE" /\ OutClasses = {AnnInfo_CHECK}

\* The datetime string with the fields in the order the templates are
\* documented to have.
C8_Expected ==
    LET wd == PyIndex(weekdays, weekday)
        time == PadInt(hour, 2) \o ":" \o PadInt(minute, 2) \o ":" \o PadInt(second, 2)
    IN CASE options.date_format = "European" ->
              wd \o " " \o PadInt(day, 2) \o "." \o PadInt(month, 2) \o "."
                 \o PadInt(year, 4) \o " " \o time
         [] options.date_format = "American" ->
              wd \o ", " \o PadInt(month, 2) \o "/" \o PadInt(day, 2) \o "/"
                 \o PadInt(year, 4) \o " " \o time
         [] options.date_format = "ANSI" ->
              PadInt(year, 4) \o "-" \o PadInt(month, 2) \o "-" \o PadInt(day, 2)
                 \o "T" \o time

\* C8: the datetime annotation put at Stop holds the fields in the order of
\* the selected template: European weekday DD.MM.YYYY HH:MM:SS, American
\* weekday, MM/DD/YYYY HH:MM:SS, ANSI YYYY-MM-DDTHH:MM:SS.
C8_DatetimeOrder ==
    (cmd = "STOP" /\ Len(out) = 1 /\ out[1].cls = AnnInfo_DATETIME)
    => out[1].texts[1] =
         format_action(write)[1] \o " " \o info[AnnInfo_DATETIME][1] \o ": "
           \o C8_Expected

\* C9: the start sample of the transaction is the sample of the last Start
\* processed in Idle (no other event changes it), the Stop processed in
\* DataPhase puts exactly one datetime annotation, from that start sample
\* to the end sample of the Stop, and no other event puts a datetime
\* annotation.
C9_OneDatetimePerTransaction ==
    [][/\ IF Handles("IDLE", "START") THEN ssb' = ss' ELSE ssb' = ssb
       /\ Handles("REGISTER DATA", "STOP")
            => /\ Len(out') = 1
               /\ out'[1].cls = AnnInfo_DATETIME
               /\ out'[1].ss = ssb /\ out'[1].es = es'
               /\ state' = "IDLE"
       /\ ~Handles("REGISTER DATA", "STOP")
            => \A i \in 1..Len(out') : out'[i].cls # AnnInfo_DATETIME]_vars

\* C9 witness: the Stop of a second transaction has put the datetime
\* annotation from the Start of that transaction to the Stop.
C9_Witness ==
    /\ cmd = "STOP" /\ state = "IDLE"
    /\ OutClasses = {AnnInfo_DATETIME}
    /\ out[1].ss = ssb /\ out[1].es = es
    /\ 0 < ssb /\ ssb < es

C11_PointerInRange ==
    [][/\ (state = "REGISTER DATA" /\ cmd' \in {"DATA WRITE", "DATA READ"})
            => reg \in 0..NvRAM_MAX /\ reg' \in 0..NvRAM_MAX
       /\ Handles("REGISTER ADDRESS", "DATA WRITE")
            => reg' \in 0..NvRAM_MAX]_vars

\* The step decodes an event that is not defined for the current phase.
C12_Unexpected ==
    \/ state = "IDLE" /\ cmd' \notin {"START", "BITS"}
    \/ /\ state = "ADDRESS SLAVE"
       /\ cmd' \in {"START", "START REPEAT", "STOP", "DATA WRITE", "DATA READ"}
    \/ /\ state = "REGISTER ADDRESS"
       /\ cmd' \in {"DATA READ", "START", "START REPEAT",
                    "ADDRESS WRITE", "ADDRESS READ"}
    \/ /\ state = "REGISTER DATA"
       /\ cmd' \in {"START", "ADDRESS WRITE", "ADDRESS READ"}

\* C12: an event that is not defined for the current phase is ignored: the
\* phase, register pointer, direction, datetime fields, bit cache and byte
\* cache are unchanged and no annotation is put.
C12_UnexpectedIgnored ==
    [][C12_Unexpected
       => /\ out' = <<>>
          /\ fault' = "none"
          /\ UNCHANGED <<state, reg, write, dtvars, bits, bytes, ssd, esd>>]_vars

\* C12 witness: a data byte was ignored in AddressPhase and its eight bit
\* spans are still cached.
C12_Witness ==
    /\ cmd = "DATA WRITE" /\ state = "ADDRESS SLAVE"
    /\ out = <<>> /\ Len(bits) = 8

\* C13: a BitSpans event is handled the same way in every phase: its eight
\* spans are added to the bit cache in front of those already there, no
\* annotation is put, and the phase, register pointer, direction, byte
\* cache and datetime fields are unchanged.
C13_BitSpansOrthogonal ==
    [][cmd' = "BITS"
       => /\ bits' = databyte' \o bits
          /\ Len(bits') = Len(bits) + 8
          /\ out' = <<>>
          /\ fault' = "none"
          /\ UNCHANGED <<state, reg, write, bytes, dtvars>>]_vars

\* C13 witness: in DataPhase the spans of a byte were added to the spans
\* that were cached before.
C13_Witness ==
    /\ cmd = "BITS" /\ state = "REGISTER DATA"
    /\ Len(bits) = 16 /\ SubSeq(bits, 1, 8) = databyte
    /\ out = <<>>

\* C14: with every byte event preceded by exactly eight bit spans, the bit
\* cache never holds more than eight spans, and it is empty after every
\* address or data byte event and after a Start processed in Idle.
C14_BitCacheOneByte ==
    /\ Len(bits) <= 8
    /\ cmd \in {"DATA WRITE", "DATA READ", "ADDRESS WRITE", "ADDRESS READ"}
         => bits = <<>>
    /\ (cmd = "START" /\ state = "ADDRESS SLAVE" /\ ssb = ss)
         => bits = <<>>

\* C15: the byte cache holds at most the current byte: it has at most one
\* entry in every state and is empty after every event, and a register
\* handler decodes the byte of the event being processed, putting the
\* register annotation over exactly that event's samples.
C15_ByteCacheCurrentOnly ==
    [][/\ Len(bytes') <= 1
       /\ bytes' = <<>>
       /\ (state = "REGISTER DATA" /\ cmd' \in {"DATA WRITE", "DATA READ"})
            => /\ Len(out') > 0
               /\ out'[Len(out')].cls = RegClass(reg)
               /\ out'[Len(out')].ss = ss' /\ out'[Len(out')].es = es']_vars

\* bcd(x) = (x >> 4) * 10 + (x & 0xF), the conversion the register claims
\* are stated with.
bcd(x) == ((x \div 16) * 10) + (x % 16)

\* The step decodes a data byte at register pointer r.
DecodesRegister(r) ==
    state = "REGISTER DATA" /\ reg = r /\ cmd' \in {"DATA WRITE", "DATA READ"}

\* C16: hours register (0x02).  With bit 6 set (12h mode) the stored hour is
\* bcd(byte & 0x1F) mod 12, plus 12 if bit 5 (PM) is set, so 12 PM gives 12
\* and 12 AM gives 0; with bit 6 clear (24h mode) it is bcd(byte & 0x3F).
C16_HourConversion ==
    [][DecodesRegister(2)
       => LET b == databyte'
              pm == (b \div 32) % 2 = 1
          IN /\ hour' = IF (b \div 64) % 2 = 1
                        THEN (bcd(b % 32) % 12) + (IF pm THEN 12 ELSE 0)
                        ELSE bcd(b % 64)
             /\ b = 114 => hour' = 12
             /\ b = 82 => hour' = 0
             /\ b = 35 => hour' = 23]_vars

\* C16 witness: byte 0x72 (12h mode, PM, BCD hour 12) was decoded as noon.
C16_Witness ==
    /\ cmd = "DATA WRITE" /\ databyte = 114 /\ reg = 3
    /\ hour = 12 /\ fault = "none"

\* The index of the configured start weekday in the Monday-first list.
configuredStartIndex ==
    CHOOSE i \in 0..6 : weekdays[i + 1] = options.start_weekday

\* C17: weekday register (0x03).  For every start weekday and every byte the
\* stored weekday is (configuredStartIndex + (byte & 0x07) - 1) mod 7, a
\* value in 0..6 also for chip weekday 0; chip weekday 1 gives the start
\* weekday and chip weekday 7 gives (configuredStartIndex + 6) mod 7.
C17_WeekdayRebased ==
    [][DecodesRegister(3)
       => LET chip == databyte' % 8
          IN /\ weekday' = (configuredStartIndex + chip - 1) % 7
             /\ weekday' \in 0..6
             /\ chip = 1 => weekday' = configuredStartIndex
             /\ chip = 7 => weekday' = (configuredStartIndex + 6) % 7
             /\ chip = 0 => weekday' = (configuredStartIndex + 6) % 7]_vars

\* C17 witness: with the week starting on Wednesday, chip weekday 7 was
\* decoded as Tuesday.
C17_Witness ==
    /\ cmd = "DATA WRITE" /\ databyte % 8 = 7 /\ reg = 4
    /\ options.start_weekday = "Wednesday"
    /\ weekday = 1 /\ fault = "none"

\* C18: month register (0x05).  For every byte decoding completes and puts
\* the month annotation; when bcd(byte & 0x1F) is 0 or beyond the month
\* table the label shown is "Unknown"; the stored month is the BCD value.
C18_MonthUnknown ==
    [][DecodesRegister(5)
       => LET v == bcd(databyte' % 32)
              lbl == bits_labels[AnnBits_MONTH][1] \o ": Unknown"
          IN /\ fault' = "none"
             /\ month' = v
             /\ \E i \in 1..Len(out') : out'[i].cls = AnnBits_MONTH
             /\ (v = 0 \/ v > 12)
                  => \E i \in 1..Len(out') :
                        /\ out'[i].cls = AnnBits_MONTH
                        /\ \E k \in 1..Len(out'[i].texts) :
                              out'[i].texts[k] = lbl]_vars

\* C19: BCD field extraction for every byte b, with no validation of the
\* nibbles: register 0x00 stores second = bcd(b & 0x7F) and reports bit 7 as
\* the clock halt flag, 0x01 stores minute = bcd(b & 0x7F), 0x04 stores
\* day = bcd(b & 0x3F), 0x05 stores month = bcd(b & 0x1F) and 0x06 stores
\* year = 2000 + bcd(b), so 0x23 gives 2023.
C19_BcdFields ==
    [][LET b == databyte'
           halt == bits_labels[AnnBits_CH][1] \o ": "
                      \o (IF b \div 128 = 1 THEN "Halt" ELSE "Run")
       IN /\ DecodesRegister(0)
               => /\ second' = bcd(b % 128)
                  /\ \E i \in 1..Len(out') :
                        /\ out'[i].cls = AnnBits_CH
                        /\ \E k \in 1..Len(out'[i].texts) :
                              out'[i].texts[k] = halt
          /\ DecodesRegister(1) => minute' = bcd(b % 128)
          /\ DecodesRegister(4) => day' = bcd(b % 64)
          /\ DecodesRegister(5) => month' = bcd(b % 32)
          /\ DecodesRegister(6) => year' = 2000 + bcd(b)
          /\ (DecodesRegister(6) /\ b = 35) => year' = 2023]_vars

\* C19 witness: the year byte 0x23 was decoded as 2023.
C19_Witness ==
    /\ cmd = "DATA WRITE" /\ databyte = 35 /\ reg = 7
    /\ year = 2023 /\ fault = "none"

\* C20: each datetime field is changed only by decoding its own register: a
\* data byte at pointer k in 0x00..0x06 changes only the k-th of second,
\* minute, hour, weekday, day, month, year; control and NVRAM bytes, the
\* pointer byte, address bytes, BitSpans, Start, StartRepeat and Stop change
\* none, so the datetime annotation reports the last known value of every
\* register the transaction did not touch.
C20_FieldsOwnRegister ==
    [][/\ \A k \in 0..6 : dtvars'[k + 1] # dtvars[k + 1] => DecodesRegister(k)
       /\ Handles("REGISTER DATA", "STOP")
            => out'[1].texts[1] =
                 format_action(write)[1] \o " " \o info[AnnInfo_DATETIME][1]
                   \o ": " \o dt_str(options, second, minute, hour, weekday,
                                     day, month, year)]_vars

\* C20 witness: a transaction wrote the hours, weekday and day registers and
\* left the other fields as they were.
C20_Witness ==
    /\ cmd = "DATA WRITE" /\ reg = 5 /\ fault = "none"
    /\ hour = 2 /\ weekday = 1 /\ day = 13
    /\ second = -1 /\ minute = -1 /\ month = -1 /\ year = -1

\* Every configuration the options of lines 238-245 allow.
AllOptions ==
    [radix : radixes,
     start_weekday : {weekdays[i] : i \in 1..Len(weekdays)},
     date_format : date_formats]

\* The default configuration of lines 238-245.
DefaultOptions ==
    [radix |-> "Hex", start_weekday |-> "Monday", date_format |-> "European"]

\* The configurations the configuration in use is compared with: the
\* default one with every configuration, every other one with the default.
\* Agreement of two decoders is transitive, so this compares every two.
ComparedOptions ==
    IF options = DefaultOptions THEN AllOptions ELSE {DefaultOptions}

\* The index of start weekday of configuration o in the Monday-first list.
StartIndex(o) == CHOOSE i \in 0..6 : weekdays[i + 1] = o.start_weekday

\* C21 as stated: configuration affects only formatting.  A decoder under
\* any other configuration, in the same phase with the same pointer and
\* cache and given the same data byte, raises or returns as this one does
\* and stores the same value in the same datetime field; so the two keep the
\* same phase, pointer and datetime fields event after event.
C21_ConfigOnlyFormats ==
    [][(state = "REGISTER DATA" /\ cmd' \in {"DATA WRITE", "DATA READ"})
       => \A o \in ComparedOptions :
            \E r \in {call_handler(reg, databyte', bits, collect_ssd(ss'),
                                   es', write, o)} :
               /\ r.raised = fault'
               /\ (reg \in 0..6 /\ r.raised # "AttributeError")
                    => r.val = dtvars'[reg + 1]]_vars

\* C21 amended: as stated for radix and date_format, and for every field but
\* the weekday; the stored weekday is the chip weekday counted from the
\* configured start weekday, so under two configurations it differs by the
\* difference of their start indexes modulo 7.
C21_ConfigExceptWeekday ==
    [][(state = "REGISTER DATA" /\ cmd' \in {"DATA WRITE", "DATA READ"})
       => \A o \in ComparedOptions :
            \E r \in {call_handler(reg, databyte', bits, collect_ssd(ss'),
                                   es', write, o)} :
               /\ r.raised = fault'
               /\ (reg \in 0..6 /\ reg # 3 /\ r.raised # "AttributeError")
                    => r.val = dtvars'[reg + 1]
               /\ reg = 3
                    => (r.val + 7 - StartIndex(o)) % 7
                         = (weekday' + 7 - StartIndex(options)) % 7]_vars

\* C21 witness: with the week starting on Friday, chip weekday 1 was stored
\* as weekday 4.
C21_Witness ==
    /\ cmd = "DATA WRITE" /\ reg = 4 /\ fault = "none"
    /\ options.start_weekday = "Friday"
    /\ databyte % 8 = 1 /\ weekday = 4

\* C22: every annotation put by any handler carries its label strings in
\* non-increasing order of length, the rate select field of the control
\* register with its Hz and kHz renderings included.
C22_LabelsLongestFirst ==
    \A i \in 1..Len(out) :
        \A k \in 1..(Len(out[i].texts) - 1) :
            Len(out[i].texts[k]) >= Len(out[i].texts[k + 1])

\* Text t starts with one of the labels of bit field category c.
LabelOf(c, t) ==
    \E l \in 1..Len(bits_labels[c]) :
        /\ Len(bits_labels[c][l]) <= Len(t)
        /\ SubSeq(t, 1, Len(bits_labels[c][l])) = bits_labels[c][l]

\* C23: every decoded bit field is put under the annotation category of that
\* field.  For the hours register (0x02), in 12h and in 24h mode, the hour
\* value is put under the hour category and the 12h/24h flag under the mode
\* category, so one decode never puts two annotations of the mode category.
C23_FieldUnderOwnCategory ==
    /\ \A i \in 1..Len(out) :
          out[i].cls \in AnnBits_RESERVED..AnnBits_NVRAM
            => \A k \in 1..Len(out[i].texts) : LabelOf(out[i].cls, out[i].texts[k])
    /\ (\E i \in 1..Len(out) : out[i].cls = AnnRegs_HOUR)
          => /\ Cardinality({i \in 1..Len(out) : out[i].cls = AnnBits_MODE}) = 1
             /\ Cardinality({i \in 1..Len(out) : out[i].cls = AnnBits_HOUR}) = 1

\* C24: with every byte event preceded by the BitSpans event of its eight
\* spans, whenever a register data byte is decoded the entries 0..7 of the
\* bit cache are the eight spans of that byte, also when spans of an earlier
\* byte are still cached behind them; every bit field annotation is put on
\* spans of the byte being decoded.
C24_NewestSpansFirst ==
    [][(state = "REGISTER DATA" /\ cmd' \in {"DATA WRITE", "DATA READ"})
       => /\ Len(bits) >= 8
          /\ SubSeq(bits, 1, 8) = bits_packet(databyte', sent)
          /\ \A i \in 1..Len(out') :
                out'[i].cls \in AnnBits_RESERVED..AnnBits_NVRAM
                  => /\ \E k \in 1..8 : out'[i].ss = bits[k][2]
                     /\ \E k \in 1..8 : out'[i].es = bits[k][3]
                     /\ ss' <= out'[i].ss /\ out'[i].es <= es']_vars

\* C24 witness: a month byte was decoded while the spans of the pointer byte
\* were still cached behind its own, and its reserved bits were put on its
\* own spans.
C24_Witness ==
    /\ cmd = "DATA WRITE" /\ state = "REGISTER DATA" /\ fault = "IndexError"
    /\ Len(bits) = 16
    /\ SubSeq(bits, 1, 8) = bits_packet(databyte, sent - 1)
    /\ SubSeq(bits, 9, 16) = bits_packet(reg, sent - 2)
    /\ Len(out) = 3 /\ out[1].ss = bits[8][2] /\ out[1].es = bits[8][3]

\* C25: the register pointer persists across transactions.  It is changed
\* only by the pointer byte in PointerPhase and by the decode of a data
\* byte; so in a read-only transaction after a transaction that left the
\* pointer at q, the AddressRead keeps the pointer and every DataRead is
\* decoded as the register the pointer selects and moves it by one, mod 64.
C25_PointerPersists ==
    [][/\ reg' # reg
            => \/ Handles("REGISTER ADDRESS", "DATA WRITE")
               \/ state = "REGISTER DATA" /\ cmd' \in {"DATA WRITE", "DATA READ"}
       /\ (Handles("ADDRESS SLAVE", "ADDRESS READ") /\ databyte' = Address_SLAVE)
            => reg' = reg /\ state' = "REGISTER DATA" /\ ~write'
       /\ Handles("REGISTER DATA", "DATA READ")
            => /\ fault' = "none"
               /\ reg' = (reg + 1) % (NvRAM_MAX + 1)
               /\ \E i \in 1..Len(out') : out'[i].cls = RegClass(reg)]_vars

====
